---- MODULE Spec2Model ----
(***************************************************************************)
(* Behaviour state machine, hand-off queues and the fast / slow / input    *)
(* tasks of rl_sar (rl_sdk.cpp, rl_real_go2.cpp).                          *)
(*                                                                         *)
(* The three LoopFunc threads run in parallel without locks, so each task  *)
(* is a small program counter machine and the steps of different tasks     *)
(* interleave freely.                                                      *)
(***************************************************************************)
EXTENDS Integers, Sequences, FiniteSets, TLC

(***************************************************************************)
(* Bounds of the model.                                                    *)
(***************************************************************************)
NumDofs == 2
MaxQueue == 2
MaxStarved == 2

DOFs == 1..NumDofs

(***************************************************************************)
(* IEEE-754 binary32 values >= 0, as running_percent uses them.            *)
(* [m, e] stands for m * 2^(e-23) with 2^23 <= m < 2^24 (normalised), or   *)
(* m = 0 for zero.  FAdd rounds to nearest, ties to even.                  *)
(***************************************************************************)
TwoTo23 == 8388608
TwoTo24 == 16777216

RECURSIVE Pow2(_)
Pow2(n) == IF n = 0 THEN 1 ELSE 2 * Pow2(n - 1)

ZeroF == [m |-> 0, e |-> 0]
OneF  == [m |-> TwoTo23, e |-> 0]
\* 1.0f / 500.0f = 0x3B03126F
StepF == [m |-> 8589935, e |-> -9]

FLt(x, y) ==
    IF x.m = 0 THEN y.m > 0
    ELSE IF y.m = 0 THEN FALSE
    ELSE x.e < y.e \/ (x.e = y.e /\ x.m < y.m)

FLe(x, y) == x = y \/ FLt(x, y)

FMin(x, y) == IF FLt(y, x) THEN y ELSE x

FNorm(m, e) == IF m = TwoTo24 THEN [m |-> TwoTo23, e |-> e + 1] ELSE [m |-> m, e |-> e]

FAddOrdered(a, b) ==
    \* a.e >= b.e, both non-zero
    LET d == a.e - b.e
        u == Pow2(d)
        q == b.m \div u
        r == b.m % u
        t == a.m + q
    IN  IF d > 24 THEN a
        ELSE IF t < TwoTo24
        THEN LET up == IF (2 * r > u) \/ (2 * r = u /\ t % 2 = 1) THEN 1 ELSE 0
             IN  FNorm(t + up, a.e)
        ELSE LET m2 == t \div 2
                 rem == (t % 2) * u + r
                 up == IF (rem > u) \/ (rem = u /\ m2 % 2 = 1) THEN 1 ELSE 0
             IN  FNorm(m2 + up, a.e + 1)

FAdd(x, y) ==
    IF x.m = 0 THEN y
    ELSE IF y.m = 0 THEN x
    ELSE IF x.e >= y.e THEN FAddOrdered(x, y) ELSE FAddOrdered(y, x)

(***************************************************************************)
(* Names: the FSM states and the requested-mode values (STATE enum).       *)
(***************************************************************************)
Waiting    == "RLFSMStateWaiting"
GetUp      == "RLFSMStateGetUp"
GetDown    == "RLFSMStateGetDown"
Locomotion == "RLFSMStateRL_Locomotion"
Navigation == "RLFSMStateRL_Navigation"

FSMStates == {Waiting, GetUp, GetDown, Locomotion, Navigation}
Learned   == {Locomotion, Navigation}
Ramps     == {GetUp, GetDown}

STATE_WAITING           == "STATE_WAITING"
STATE_POS_GETUP         == "STATE_POS_GETUP"
STATE_POS_GETDOWN       == "STATE_POS_GETDOWN"
STATE_RL_LOCOMOTION     == "STATE_RL_LOCOMOTION"
STATE_RL_NAVIGATION     == "STATE_RL_NAVIGATION"
STATE_RL_CLIMB          == "STATE_RL_CLIMB"
STATE_RESET_SIMULATION  == "STATE_RESET_SIMULATION"
STATE_TOGGLE_SIMULATION == "STATE_TOGGLE_SIMULATION"

STATES == {STATE_WAITING, STATE_POS_GETUP, STATE_POS_GETDOWN, STATE_RL_LOCOMOTION,
           STATE_RL_NAVIGATION, STATE_RL_CLIMB, STATE_RESET_SIMULATION,
           STATE_TOGGLE_SIMULATION}

(***************************************************************************)
(* Config (params) of the modelled robot: one value per DOF.  The last DOF *)
(* is a wheel.                                                             *)
(***************************************************************************)
FixedKp == 7
FixedKd == 3
RlKp    == 4
RlKd    == 1
TorqueLimit == 5
ActionScale == 2

wheel_indices   == {NumDofs}
default_dof_pos == [i \in DOFs |-> i]
fixed_kp        == [i \in DOFs |-> FixedKp]
fixed_kd        == [i \in DOFs |-> FixedKd]
rl_kp           == [i \in DOFs |-> RlKp]
rl_kd           == [i \in DOFs |-> RlKd]
torque_limits   == [i \in DOFs |-> TorqueLimit]
action_scale    == [i \in DOFs |-> ActionScale]

Zeros == [i \in DOFs |-> 0]

(***************************************************************************)
(* Environment: what the sensor can report in one low-state message, the   *)
(* joystick buttons GetState looks at, the keys that change the requested  *)
(* mode, and the vectors the (opaque) policy can return.                   *)
(***************************************************************************)
SampleA == [q |-> [i \in DOFs |-> 3], dq |-> [i \in DOFs |-> 1]]
SampleB == [q |-> [i \in DOFs |-> 0], dq |-> [i \in DOFs |-> 0]]
Samples == {SampleA, SampleB}

JoyButtons == [R2 : {0, 1}, R1 : {0, 1}, L2 : {0, 1}]

KeyStates == {STATE_POS_GETUP, STATE_RL_LOCOMOTION, STATE_RL_NAVIGATION,
              STATE_POS_GETDOWN, STATE_RESET_SIMULATION, STATE_TOGGLE_SIMULATION}

ActionSet == { [i \in DOFs |-> 1], [i \in DOFs |-> 0 - 1] }

(***************************************************************************)
(* Tensors are functions over DOFs; the undefined / empty tensor is <<>>.  *)
(***************************************************************************)
NoTensor == << >>
Defined(t) == DOMAIN t # {}

(***************************************************************************)
(* (1 - p) * a + p * b in double, p a binary32 in [0, 1].  The factor      *)
(* 1 - p is exactly 0 at p = 1 and exactly 1 at p = 0, so the end points   *)
(* are exact; in between the value is kept as the term it is.  Position   *)
(* targets are such terms; Exact(v) is the term of the plain number v.     *)
(***************************************************************************)
Exact(v) == <<"val", ZeroF, v, v>>

Lerp(p, a, b) ==
    IF p = OneF THEN Exact(b)
    ELSE IF p = ZeroF THEN Exact(a)
    ELSE <<"lerp", p, a, b>>

ExactVec(t) == [i \in DOFs |-> Exact(t[i])]

\* the stop values InitLowCmd writes
PosStopF == 2146000000
VelStopF == 16000

(***************************************************************************)
(* RobotCommand / RobotState as constructed.                               *)
(***************************************************************************)
InitCommand == [q |-> ExactVec(Zeros), dq |-> Zeros, kp |-> Zeros, kd |-> Zeros, tau |-> Zeros]
InitRobotState == [q |-> Zeros, dq |-> Zeros]
InitLowCmd == [q |-> [i \in DOFs |-> Exact(PosStopF)], dq |-> [i \in DOFs |-> VelStopF],
               kp |-> Zeros, kd |-> Zeros, tau |-> Zeros]

(***************************************************************************)
(* State.                                                                  *)
(***************************************************************************)
VARIABLES
    fsm_current,            \* fsm._currentState (its name)
    running_percent,        \* rl.running_percent (binary32)
    control_state,          \* rl.control.control_state, the requested mode
    rl_init_done,           \* rl.rl_init_done, the ready flag
    robot_state,            \* RL_Real::robot_state, written by GetState
    now_state,              \* rl.now_state
    start_state,            \* rl.start_state
    robot_command,          \* RL_Real::robot_command, the persistent JointCommand
    low_command,            \* unitree_low_command as last published
    output_dof_pos,         \* rl.output_dof_pos
    output_dof_vel,         \* rl.output_dof_vel
    output_dof_tau,         \* rl.output_dof_tau
    output_dof_pos_queue,
    output_dof_vel_queue,
    output_dof_tau_queue,
    pc_fast,                \* position of loop_control inside RobotControl
    pc_slow,                \* position of loop_rl inside RunModel
    ticks,                  \* history: run() calls of the current ramp activation
    starved,                \* history: consecutive learned run() calls that found the queues empty
    enter_failed            \* history: the last enter() of a learned state caught an exception

\* The same objects at the granularity of single assignments: every value is
\* the number of the message it was copied from (0: as constructed).
VARIABLES
    control,                \* rl.control.x / y / yaw
    state_fields,           \* robot_state.imu.quaternion / gyroscope, motor_state.q / dq
    obs,                    \* rl.obs as RunModel fills it
    msg,                    \* the joystick / low-state message the running GetState copies
    pc_get,                 \* position of loop_control inside GetState
    pc_run,                 \* position of loop_rl inside RunModel
    pc_key,                 \* position of loop_keyboard inside the ' ' case
    updates                 \* history: updates of control started so far

field_vars == <<control, state_fields, obs, msg, pc_get, pc_run, pc_key, updates>>

\* Process exit, the log, and the data of the slow task's pipeline
\* (observation row, history buffer, action decoder).
VARIABLES
    exited,                 \* exit(0) has been called
    log,                    \* the last warning TorqueProtect / AttitudeProtect printed
    observations,           \* params.observations, the configured term names
    clip_obs,               \* params.clip_obs
    obs_status,             \* "none"; InitRL returned ("done") or threw ("throw"); torch::cat threw ("cat_throw");
                            \* ReadYamlRL caught BadFile and InitRL returned ("BadFile_done") or threw ("BadFile_throw")
    obs_cat,                \* ComputeObservation: torch::cat(obs_list, 1)
    clamped_obs,            \* ComputeObservation: the row returned
    observations_history,   \* params.observations_history, the configured offsets
    history_obs_buf,        \* the ObservationBuffer
    history_obs,            \* Forward: history_obs_buf.get_obs_vec(observations_history)
    inserted,               \* history: the rows inserted so far, oldest first
    decoder_in              \* the wheel index set and the inputs of the last ComputeOutput

exit_vars   == <<exited>>
log_vars    == <<log>>
obs_vars    == <<observations, clip_obs, obs_status, obs_cat, clamped_obs>>
buffer_vars == <<observations_history, history_obs_buf, history_obs, inserted>>
dec_vars    == <<decoder_in>>

ext_vars == <<field_vars, exit_vars, log_vars, obs_vars, buffer_vars, dec_vars>>

vars == <<ext_vars, fsm_current, running_percent, control_state, rl_init_done, robot_state,
          now_state, start_state, robot_command, low_command, output_dof_pos,
          output_dof_vel, output_dof_tau, output_dof_pos_queue, output_dof_vel_queue,
          output_dof_tau_queue, pc_fast, pc_slow, ticks, starved, enter_failed>>

fsm_vars   == <<fsm_current, running_percent, rl_init_done>>
out_vars   == <<output_dof_pos, output_dof_vel, output_dof_tau>>
queue_vars == <<output_dof_pos_queue, output_dof_vel_queue, output_dof_tau_queue>>
pose_vars  == <<now_state, start_state>>
hist_vars  == <<ticks, starved, enter_failed>>

MaxTicks == 502
MaxRampTicks == 2

(***************************************************************************)
(* checkChange() of the five states.                                       *)
(***************************************************************************)
\* mutant: Idle also follows a Locomotion request
RLFSMStateWaiting_checkChange_Loco(cs) ==
    IF cs = STATE_POS_GETUP THEN GetUp
    ELSE IF cs = STATE_RL_LOCOMOTION THEN Locomotion
    ELSE Waiting

\* mutant: Idle also follows a SitDown request
RLFSMStateWaiting_checkChange_GetDown(cs) ==
    IF cs = STATE_POS_GETUP THEN GetUp
    ELSE IF cs = STATE_POS_GETDOWN THEN GetDown
    ELSE Waiting

RLFSMStateWaiting_checkChange(cs) ==
    IF cs = STATE_POS_GETUP THEN GetUp ELSE Waiting

\* mutant: the running_percent guard is missing
RLFSMStateGetUp_checkChange_NoGuard(rp, cs) ==
    IF cs = STATE_RL_LOCOMOTION THEN Locomotion
    ELSE IF cs = STATE_RL_NAVIGATION THEN Navigation
    ELSE IF cs = STATE_POS_GETDOWN THEN GetDown
    ELSE IF cs = STATE_WAITING THEN Waiting
    ELSE GetUp

RLFSMStateGetUp_checkChange(rp, cs) ==
    IF ~FLt(rp, OneF)
    THEN IF cs = STATE_RL_LOCOMOTION THEN Locomotion
         ELSE IF cs = STATE_RL_NAVIGATION THEN Navigation
         ELSE IF cs = STATE_POS_GETDOWN THEN GetDown
         ELSE IF cs = STATE_WAITING THEN Waiting
         ELSE GetUp
    ELSE GetUp

\* mutant: SitDown also follows a Locomotion request
RLFSMStateGetDown_checkChange_ToLearned(rp, cs) ==
    IF ~FLt(rp, OneF) THEN Waiting
    ELSE IF cs = STATE_POS_GETUP THEN GetUp
    ELSE IF cs = STATE_RL_LOCOMOTION THEN Locomotion
    ELSE GetDown

\* mutant: the GETUP request is tested before running_percent
RLFSMStateGetDown_checkChange_Swapped(rp, cs) ==
    IF cs = STATE_POS_GETUP THEN GetUp
    ELSE IF ~FLt(rp, OneF) THEN Waiting
    ELSE GetDown

RLFSMStateGetDown_checkChange(rp, cs) ==
    IF ~FLt(rp, OneF) THEN Waiting
    ELSE IF cs = STATE_POS_GETUP THEN GetUp
    ELSE GetDown

\* mutant: the Navigation branch is missing
RLFSMStateRL_Locomotion_checkChange_NoNav(cs) ==
    IF cs = STATE_POS_GETDOWN THEN GetDown
    ELSE IF cs = STATE_POS_GETUP THEN GetUp
    ELSE IF cs = STATE_WAITING THEN Waiting
    ELSE Locomotion

RLFSMStateRL_Locomotion_checkChange(cs) ==
    IF cs = STATE_POS_GETDOWN THEN GetDown
    ELSE IF cs = STATE_POS_GETUP THEN GetUp
    ELSE IF cs = STATE_RL_LOCOMOTION THEN Locomotion
    ELSE IF cs = STATE_RL_NAVIGATION THEN Navigation
    ELSE IF cs = STATE_WAITING THEN Waiting
    ELSE Locomotion

RLFSMStateRL_Navigation_checkChange(cs) ==
    IF cs = STATE_POS_GETDOWN THEN GetDown
    ELSE IF cs = STATE_POS_GETUP THEN GetUp
    ELSE IF cs = STATE_RL_LOCOMOTION THEN Locomotion
    ELSE IF cs = STATE_RL_NAVIGATION THEN Navigation
    ELSE IF cs = STATE_WAITING THEN Waiting
    ELSE Navigation

checkChange(st, rp, cs) ==
    CASE st = Waiting    -> RLFSMStateWaiting_checkChange(cs)
      [] st = GetUp      -> RLFSMStateGetUp_checkChange(rp, cs)
      [] st = GetDown    -> RLFSMStateGetDown_checkChange(rp, cs)
      [] st = Locomotion -> RLFSMStateRL_Locomotion_checkChange(cs)
      [] st = Navigation -> RLFSMStateRL_Navigation_checkChange(cs)

(***************************************************************************)
(* run() of the five states, as functions of what they read.               *)
(***************************************************************************)
\* mutant: Idle also clears the velocity target, the gains and the torque
RLFSMStateWaiting_run_ZeroRest(cmd, rs) ==
    [q |-> ExactVec(rs.q), dq |-> Zeros, kp |-> Zeros, kd |-> Zeros, tau |-> Zeros]

RLFSMStateWaiting_run(cmd, rs) == [cmd EXCEPT !.q = ExactVec(rs.q)]

\* mutant: the std::min clamp is missing
RampPercent_NoClamp(rp) == FAdd(rp, StepF)

\* running_percent += 1.0f / 500.0f; running_percent = std::min(running_percent, 1.0f)
RampPercent(rp) == FMin(FAdd(rp, StepF), OneF)

RLFSMStateGetUp_percent(rp) == IF FLt(rp, OneF) THEN RampPercent(rp) ELSE rp

\* mutant: the two poses of the interpolation are exchanged
RLFSMStateGetUp_run_Swapped(cmd, rp, now) ==
    IF FLt(rp, OneF)
    THEN LET p == RampPercent(rp)
         IN  [q   |-> [i \in DOFs |-> Lerp(p, default_dof_pos[i], now.q[i])],
              dq  |-> Zeros,
              kp  |-> fixed_kp,
              kd  |-> fixed_kd,
              tau |-> Zeros]
    ELSE cmd

RLFSMStateGetUp_run(cmd, rp, now) ==
    IF FLt(rp, OneF)
    THEN LET p == RampPercent(rp)
         IN  [q   |-> [i \in DOFs |-> Lerp(p, now.q[i], default_dof_pos[i])],
              dq  |-> Zeros,
              kp  |-> fixed_kp,
              kd  |-> fixed_kd,
              tau |-> Zeros]
    ELSE cmd

RLFSMStateGetDown_percent(rp) == IF FLt(rp, OneF) THEN RampPercent(rp) ELSE rp

\* mutant: SitDown descends to the default pose instead of the captured one
RLFSMStateGetDown_run_ToDefault(cmd, rp, now, start) ==
    IF FLt(rp, OneF)
    THEN LET p == RampPercent(rp)
         IN  [q   |-> [i \in DOFs |-> Lerp(p, now.q[i], default_dof_pos[i])],
              dq  |-> Zeros,
              kp  |-> fixed_kp,
              kd  |-> fixed_kd,
              tau |-> Zeros]
    ELSE cmd

RLFSMStateGetDown_run(cmd, rp, now, start) ==
    IF FLt(rp, OneF)
    THEN LET p == RampPercent(rp)
         IN  [q   |-> [i \in DOFs |-> Lerp(p, now.q[i], start.q[i])],
              dq  |-> Zeros,
              kp  |-> fixed_kp,
              kd  |-> fixed_kd,
              tau |-> Zeros]
    ELSE cmd

\* ThreadSafeQueue::try_pop: never waits
try_pop(queue) ==
    IF queue = << >>
    THEN [ok |-> FALSE, val |-> NoTensor, rest |-> queue]
    ELSE [ok |-> TRUE, val |-> Head(queue), rest |-> Tail(queue)]

\* mutant: gains and torque are written on every tick, outside the try_pop test
RLFSMStateRL_run_GainsAlways(cmd, pos_queue, vel_queue, out_pos, out_vel) ==
    LET p == try_pop(pos_queue)
        v == IF p.ok THEN try_pop(vel_queue)
                     ELSE [ok |-> FALSE, val |-> NoTensor, rest |-> vel_queue]
    IN  [pos_queue |-> p.rest,
         vel_queue |-> v.rest,
         popped    |-> p.ok /\ v.ok,
         cmd       |-> [q   |-> IF p.ok /\ v.ok /\ Defined(p.val) THEN ExactVec(out_pos) ELSE cmd.q,
                        dq  |-> IF p.ok /\ v.ok /\ Defined(v.val) THEN out_vel ELSE cmd.dq,
                        kp  |-> rl_kp,
                        kd  |-> rl_kd,
                        tau |-> Zeros]]

\* Locomotion and Navigation have the same run(): the result is the new
\* command and what is left of the two queues.
RLFSMStateRL_run(cmd, pos_queue, vel_queue, out_pos, out_vel) ==
    LET p == try_pop(pos_queue)
        v == IF p.ok THEN try_pop(vel_queue)
                     ELSE [ok |-> FALSE, val |-> NoTensor, rest |-> vel_queue]
    IN  [pos_queue |-> p.rest,
         vel_queue |-> v.rest,
         popped    |-> p.ok /\ v.ok,
         cmd       |-> IF p.ok /\ v.ok
                       THEN [q   |-> IF Defined(p.val) THEN ExactVec(out_pos) ELSE cmd.q,
                             dq  |-> IF Defined(v.val) THEN out_vel ELSE cmd.dq,
                             kp  |-> rl_kp,
                             kd  |-> rl_kd,
                             tau |-> Zeros]
                       ELSE cmd]

(***************************************************************************)
(* RL::ComputeOutput                                                       *)
(***************************************************************************)
Clamp(x, lo, hi) == IF x < lo THEN lo ELSE IF x > hi THEN hi ELSE x

\* mutant: the loop over wheel_indices does not reset the position entry
ComputeOutputWith_WheelPos(wheels, actions, obs_dof_pos, obs_dof_vel) ==
    LET actions_scaled     == [i \in DOFs |-> actions[i] * action_scale[i]]
        pos_actions_scaled == actions_scaled
        vel_actions_scaled == [i \in DOFs |-> IF i \in wheels THEN actions_scaled[i] ELSE 0]
        all_actions_scaled == [i \in DOFs |-> pos_actions_scaled[i] + vel_actions_scaled[i]]
    IN  [pos |-> [i \in DOFs |-> pos_actions_scaled[i] + default_dof_pos[i]],
         vel |-> vel_actions_scaled,
         tau |-> [i \in DOFs |->
                    Clamp(rl_kp[i] * (all_actions_scaled[i] + default_dof_pos[i] - obs_dof_pos[i])
                            - rl_kd[i] * obs_dof_vel[i],
                          0 - torque_limits[i], torque_limits[i])]]

\* the body of RL::ComputeOutput with params.wheel_indices = wheels
ComputeOutputWith(wheels, actions, obs_dof_pos, obs_dof_vel) ==
    LET actions_scaled     == [i \in DOFs |-> actions[i] * action_scale[i]]
        pos_actions_scaled == [i \in DOFs |-> IF i \in wheels THEN 0 ELSE actions_scaled[i]]
        vel_actions_scaled == [i \in DOFs |-> IF i \in wheels THEN actions_scaled[i] ELSE 0]
        all_actions_scaled == [i \in DOFs |-> pos_actions_scaled[i] + vel_actions_scaled[i]]
    IN  [pos |-> [i \in DOFs |-> pos_actions_scaled[i] + default_dof_pos[i]],
         vel |-> vel_actions_scaled,
         tau |-> [i \in DOFs |->
                    Clamp(rl_kp[i] * (all_actions_scaled[i] + default_dof_pos[i] - obs_dof_pos[i])
                            - rl_kd[i] * obs_dof_vel[i],
                          0 - torque_limits[i], torque_limits[i])]]

\* RL::ComputeOutput with the wheel_indices of the robot's config
ComputeOutput(actions, obs_dof_pos, obs_dof_vel) ==
    ComputeOutputWith(wheel_indices, actions, obs_dof_pos, obs_dof_vel)

(***************************************************************************)
(* Construction: RL::RL() makes Waiting the initial state and enters it;   *)
(* RL_Real::RL_Real() reads base.yaml, InitLowCmd, InitOutputs.            *)
(***************************************************************************)
InitOutputs == [pos |-> default_dof_pos, vel |-> Zeros, tau |-> Zeros]

\* RL::InitControl
InitControl == [x |-> 0, y |-> 0, yaw |-> 0]

\* RL::InitObservations, the fields RunModel overwrites
InitObservations ==
    [ang_vel |-> 0, commands |-> <<0, 0, 0>>, base_quat |-> 0, dof_pos |-> 0, dof_vel |-> 0]

InitFields ==
    /\ control = InitControl
    /\ state_fields = [quaternion |-> 0, gyroscope |-> 0, q |-> 0, dq |-> 0]
    /\ obs = InitObservations
    /\ msg = 0
    /\ pc_get = "x"
    /\ pc_run = "ang_vel"
    /\ pc_key = "x"
    /\ updates = 0

\* before the first InitRL: no term list, no offsets, no row, no buffer
InitPipeline ==
    /\ observations = << >>
    /\ clip_obs = 0
    /\ obs_status = "none"
    /\ obs_cat = << >>
    /\ clamped_obs = << >>
    /\ observations_history = << >>
    /\ history_obs_buf = << >>
    /\ history_obs = << >>
    /\ inserted = << >>
    /\ decoder_in = << >>

ExtInit ==
    /\ InitFields
    /\ exited = FALSE
    /\ log = "none"
    /\ InitPipeline

Init ==
    /\ fsm_current = Waiting
    /\ running_percent = ZeroF
    /\ control_state = STATE_WAITING
    /\ rl_init_done = FALSE
    /\ robot_state = InitRobotState
    /\ now_state = InitRobotState
    /\ start_state = InitRobotState
    /\ robot_command = InitCommand
    /\ low_command = InitLowCmd
    /\ output_dof_pos = InitOutputs.pos
    /\ output_dof_vel = InitOutputs.vel
    /\ output_dof_tau = InitOutputs.tau
    /\ output_dof_pos_queue = << >>
    /\ output_dof_vel_queue = << >>
    /\ output_dof_tau_queue = << >>
    /\ pc_fast = "GetState"
    /\ pc_slow = "RunModel"
    /\ ticks = 0
    /\ starved = 0
    /\ enter_failed = FALSE
    /\ ExtInit

(***************************************************************************)
(* Fast task, RL_Real::RobotControl = GetState; StateController;           *)
(* SetCommand.  StateController is fsm.run(): run() of the current state,  *)
(* then checkChange() and, when it names another state, exit() of the      *)
(* current state and enter() of the next.                                  *)
(***************************************************************************)
state_mapping   == [i \in DOFs |-> NumDofs + 1 - i]
command_mapping == [i \in DOFs |-> NumDofs + 1 - i]

\* the joystick part of GetState: R2, else R1, else L2
GetState_control(cs, joy) ==
    IF joy.R2 = 1 THEN STATE_POS_GETUP
    ELSE IF joy.R1 = 1 THEN STATE_RL_LOCOMOTION
    ELSE IF joy.L2 = 1 THEN STATE_POS_GETDOWN
    ELSE cs

GetState_motor(low) ==
    [q  |-> [i \in DOFs |-> low.q[state_mapping[i]]],
     dq |-> [i \in DOFs |-> low.dq[state_mapping[i]]]]

GetState(lows) ==
    /\ pc_fast = "GetState"
    /\ \E joy \in JoyButtons, low \in lows :
          /\ control_state' = GetState_control(control_state, joy)
          /\ robot_state' = GetState_motor(low)
    /\ pc_fast' = "run"
    /\ UNCHANGED <<fsm_vars, pose_vars, robot_command, low_command, out_vars,
                   queue_vars, pc_slow, hist_vars>>
    /\ UNCHANGED ext_vars

FastGetState == GetState(Samples)

Bump(n, max) == IF n < max THEN n + 1 ELSE n

RunFrame ==
    /\ pc_fast = "run"
    /\ pc_fast' = "checkChange"
    /\ UNCHANGED <<fsm_current, rl_init_done, control_state, robot_state, pose_vars,
                   low_command, out_vars, output_dof_tau_queue, pc_slow, enter_failed>>
    /\ UNCHANGED ext_vars

FastRunWaiting ==
    /\ RunFrame
    /\ fsm_current = Waiting
    /\ robot_command' = RLFSMStateWaiting_run(robot_command, robot_state)
    /\ UNCHANGED <<running_percent, output_dof_pos_queue, output_dof_vel_queue, ticks, starved>>

FastRunGetUp ==
    /\ RunFrame
    /\ fsm_current = GetUp
    /\ running_percent' = RLFSMStateGetUp_percent(running_percent)
    /\ robot_command' = RLFSMStateGetUp_run(robot_command, running_percent, now_state)
    /\ ticks' = Bump(ticks, MaxTicks)
    /\ UNCHANGED <<output_dof_pos_queue, output_dof_vel_queue, starved>>

FastRunGetDown ==
    /\ RunFrame
    /\ fsm_current = GetDown
    /\ running_percent' = RLFSMStateGetDown_percent(running_percent)
    /\ robot_command' = RLFSMStateGetDown_run(robot_command, running_percent,
                                              now_state, start_state)
    /\ ticks' = Bump(ticks, MaxTicks)
    /\ UNCHANGED <<output_dof_pos_queue, output_dof_vel_queue, starved>>

\* mutant: run() waits for a position target (a blocking pop)
FastRunLearned_Blocking ==
    /\ output_dof_pos_queue # << >>
    /\ RunFrame
    /\ fsm_current \in Learned
    /\ LET r == RLFSMStateRL_run(robot_command, output_dof_pos_queue,
                                 output_dof_vel_queue, output_dof_pos, output_dof_vel)
       IN  /\ robot_command' = r.cmd
           /\ output_dof_pos_queue' = r.pos_queue
           /\ output_dof_vel_queue' = r.vel_queue
    /\ starved' = 0
    /\ UNCHANGED <<running_percent, ticks>>

FastRunLearned ==
    /\ RunFrame
    /\ fsm_current \in Learned
    /\ LET r == RLFSMStateRL_run(robot_command, output_dof_pos_queue,
                                 output_dof_vel_queue, output_dof_pos, output_dof_vel)
       IN  /\ robot_command' = r.cmd
           /\ output_dof_pos_queue' = r.pos_queue
           /\ output_dof_vel_queue' = r.vel_queue
    /\ starved' = IF output_dof_pos_queue = << >> /\ output_dof_vel_queue = << >>
                  THEN Bump(starved, MaxStarved) ELSE 0
    /\ UNCHANGED <<running_percent, ticks>>

\* exit(): only the learned states clear the ready flag
exit_rl_init_done(st, flag) == IF st \in Learned THEN FALSE ELSE flag

NextState == checkChange(fsm_current, running_percent, control_state)

CheckFrame ==
    /\ pc_fast = "checkChange"
    /\ pc_fast' = "SetCommand"
    /\ fsm_current' = NextState
    /\ UNCHANGED <<robot_state, robot_command, low_command, queue_vars, pc_slow>>
    /\ UNCHANGED ext_vars

\* checkChange() returned the current state's own name: nothing is exited or entered
FastStay ==
    /\ CheckFrame
    /\ NextState = fsm_current
    /\ enter_failed' = FALSE
    /\ UNCHANGED <<running_percent, rl_init_done, control_state, pose_vars,
                   out_vars, ticks, starved>>

FastToWaiting ==
    /\ CheckFrame
    /\ NextState # fsm_current
    /\ NextState = Waiting
    /\ rl_init_done' = exit_rl_init_done(fsm_current, rl_init_done)
    /\ running_percent' = ZeroF
    /\ ticks' = 0 /\ starved' = 0 /\ enter_failed' = FALSE
    /\ UNCHANGED <<control_state, pose_vars, out_vars>>

FastToGetUp ==
    /\ CheckFrame
    /\ NextState # fsm_current
    /\ NextState = GetUp
    /\ rl_init_done' = exit_rl_init_done(fsm_current, rl_init_done)
    /\ running_percent' = ZeroF
    /\ now_state' = robot_state
    /\ start_state' = robot_state
    /\ ticks' = 0 /\ starved' = 0 /\ enter_failed' = FALSE
    /\ UNCHANGED <<control_state, out_vars>>

FastToGetDown ==
    /\ CheckFrame
    /\ NextState # fsm_current
    /\ NextState = GetDown
    /\ rl_init_done' = exit_rl_init_done(fsm_current, rl_init_done)
    /\ running_percent' = ZeroF
    /\ now_state' = robot_state
    /\ ticks' = 0 /\ starved' = 0 /\ enter_failed' = FALSE
    /\ UNCHANGED <<control_state, start_state, out_vars>>

\* enter() of Locomotion / Navigation: InitRL either returns (InitOutputs has
\* run, then rl_init_done = true) or throws (flag cleared, GETUP requested)
FastToLearned ==
    /\ CheckFrame
    /\ NextState # fsm_current
    /\ NextState \in Learned
    /\ \E ok \in BOOLEAN :
          IF ok
          THEN /\ rl_init_done' = TRUE
               /\ output_dof_pos' = InitOutputs.pos
               /\ output_dof_vel' = InitOutputs.vel
               /\ output_dof_tau' = InitOutputs.tau
               /\ enter_failed' = FALSE
               /\ UNCHANGED control_state
          ELSE /\ rl_init_done' = FALSE
               /\ control_state' = STATE_POS_GETUP
               /\ enter_failed' = TRUE
               /\ UNCHANGED out_vars
    /\ ticks' = 0 /\ starved' = 0
    /\ UNCHANGED <<running_percent, pose_vars>>

SetCommand(cmd) ==
    [q   |-> [i \in DOFs |-> cmd.q[command_mapping[i]]],
     dq  |-> [i \in DOFs |-> cmd.dq[command_mapping[i]]],
     kp  |-> [i \in DOFs |-> cmd.kp[command_mapping[i]]],
     kd  |-> [i \in DOFs |-> cmd.kd[command_mapping[i]]],
     tau |-> [i \in DOFs |-> cmd.tau[command_mapping[i]]]]

FastSetCommand ==
    /\ pc_fast = "SetCommand"
    /\ pc_fast' = "GetState"
    /\ low_command' = SetCommand(robot_command)
    /\ UNCHANGED <<fsm_vars, control_state, robot_state, pose_vars, robot_command,
                   out_vars, queue_vars, pc_slow, hist_vars>>
    /\ UNCHANGED ext_vars

(***************************************************************************)
(* Slow task, RL_Real::RunModel.  A tick that finds rl_init_done false     *)
(* does nothing.  The queues are unbounded in the program; the model       *)
(* starts a tick only while each queue has room for its push.              *)
(***************************************************************************)
SlowInfer ==
    /\ pc_slow = "RunModel"
    /\ rl_init_done
    /\ Len(output_dof_pos_queue) < MaxQueue
    /\ Len(output_dof_vel_queue) < MaxQueue
    /\ Len(output_dof_tau_queue) < MaxQueue
    /\ \E actions \in ActionSet :
          LET out == ComputeOutput(actions, robot_state.q, robot_state.dq)
          IN  /\ output_dof_pos' = out.pos
              /\ output_dof_vel' = out.vel
              /\ output_dof_tau' = out.tau
    /\ pc_slow' = "push_pos"
    /\ UNCHANGED <<fsm_vars, control_state, robot_state, pose_vars, robot_command,
                   low_command, queue_vars, pc_fast, hist_vars>>
    /\ UNCHANGED ext_vars

push(queue, t) == IF Defined(t) THEN Append(queue, t) ELSE queue

SlowPushPos ==
    /\ pc_slow = "push_pos"
    /\ output_dof_pos_queue' = push(output_dof_pos_queue, output_dof_pos)
    /\ pc_slow' = "push_vel"
    /\ UNCHANGED <<fsm_vars, control_state, robot_state, pose_vars, robot_command,
                   low_command, out_vars, output_dof_vel_queue, output_dof_tau_queue,
                   pc_fast, hist_vars>>
    /\ UNCHANGED ext_vars

SlowPushVel ==
    /\ pc_slow = "push_vel"
    /\ output_dof_vel_queue' = push(output_dof_vel_queue, output_dof_vel)
    /\ pc_slow' = "push_tau"
    /\ UNCHANGED <<fsm_vars, control_state, robot_state, pose_vars, robot_command,
                   low_command, out_vars, output_dof_pos_queue, output_dof_tau_queue,
                   pc_fast, hist_vars>>
    /\ UNCHANGED ext_vars

SlowPushTau ==
    /\ pc_slow = "push_tau"
    /\ output_dof_tau_queue' = push(output_dof_tau_queue, output_dof_tau)
    /\ pc_slow' = "RunModel"
    /\ UNCHANGED <<fsm_vars, control_state, robot_state, pose_vars, robot_command,
                   low_command, out_vars, output_dof_pos_queue, output_dof_vel_queue,
                   pc_fast, hist_vars>>
    /\ UNCHANGED ext_vars

(***************************************************************************)
(* Input task, RL::KeyboardInterface: the keys that set the requested      *)
(* mode.                                                                   *)
(***************************************************************************)
KeyboardInterface ==
    /\ \E s \in KeyStates : control_state' = s
    /\ UNCHANGED <<fsm_vars, robot_state, pose_vars, robot_command, low_command,
                   out_vars, queue_vars, pc_fast, pc_slow, hist_vars>>
    /\ UNCHANGED ext_vars

(***************************************************************************)
(* Spec: the state machine from construction, driven by the fast task and  *)
(* the input task.  Every ramp runs its full length.  The slow task is     *)
(* left out here: none of its steps writes anything checkChange(), enter() *)
(* or the ramps read (SlowFrame, checked under SpecRL).                    *)
(***************************************************************************)
FastRun == FastRunWaiting \/ FastRunGetUp \/ FastRunGetDown \/ FastRunLearned
FastCheckChange == FastStay \/ FastToWaiting \/ FastToGetUp \/ FastToGetDown \/ FastToLearned
FastStep == FastGetState \/ FastRun \/ FastCheckChange \/ FastSetCommand
SlowStep == SlowInfer \/ SlowPushPos \/ SlowPushVel \/ SlowPushTau

Next ==
    \/ FastGetState
    \/ FastRunWaiting
    \/ FastRunGetUp
    \/ FastRunGetDown
    \/ FastRunLearned
    \/ FastStay
    \/ FastToWaiting
    \/ FastToGetUp
    \/ FastToGetDown
    \/ FastToLearned
    \/ FastSetCommand
    \/ KeyboardInterface

Spec == Init /\ [][Next]_vars

(***************************************************************************)
(* SpecRL: the three tasks running in parallel around the learned modes.   *)
(* It starts where Spec arrives after a complete StandUp ramp from         *)
(* SampleA (Standing, reachable under Spec) and follows each later ramp    *)
(* for its first MaxRampTicks ticks only.                                  *)
(***************************************************************************)
StandingCommand ==
    [q |-> ExactVec(default_dof_pos), dq |-> Zeros, kp |-> fixed_kp, kd |-> fixed_kd, tau |-> Zeros]

Standing ==
    /\ fsm_current = GetUp
    /\ running_percent = OneF
    /\ control_state = STATE_POS_GETUP
    /\ rl_init_done = FALSE
    /\ robot_state = GetState_motor(SampleA)
    /\ now_state = GetState_motor(SampleA)
    /\ start_state = GetState_motor(SampleA)
    /\ robot_command = StandingCommand
    /\ low_command = SetCommand(StandingCommand)
    /\ output_dof_pos = InitOutputs.pos
    /\ output_dof_vel = InitOutputs.vel
    /\ output_dof_tau = InitOutputs.tau
    /\ output_dof_pos_queue = << >>
    /\ output_dof_vel_queue = << >>
    /\ output_dof_tau_queue = << >>
    /\ pc_fast = "GetState"
    /\ pc_slow = "RunModel"
    /\ ticks = 501
    /\ starved = 0
    /\ enter_failed = FALSE
    /\ ExtInit

RampOpen == ~FLt(running_percent, OneF) \/ ticks < MaxRampTicks

FastRunGetUpRL == RampOpen /\ FastRunGetUp
FastRunGetDownRL == RampOpen /\ FastRunGetDown

FastGetStateRL == GetState({SampleA})

NextRL ==
    \/ FastGetStateRL
    \/ FastRunGetUpRL
    \/ FastRunGetDownRL
    \/ FastRunLearned
    \/ FastStay
    \/ FastToGetUp
    \/ FastToGetDown
    \/ FastToLearned
    \/ FastSetCommand
    \/ SlowInfer
    \/ SlowPushPos
    \/ SlowPushVel
    \/ SlowPushTau
    \/ KeyboardInterface

SpecRL == Standing /\ [][NextRL]_vars

(***************************************************************************)
(* Properties.                                                             *)
(***************************************************************************)
RunStep   == pc_fast = "run" /\ pc_fast' = "checkChange"
CheckStep == pc_fast = "checkChange" /\ pc_fast' = "SetCommand"

\* the transition table of StandUp, as the specification words it
GetUpTable(rp, cs) ==
    IF FLt(rp, OneF) THEN GetUp
    ELSE CASE cs = STATE_RL_LOCOMOTION -> Locomotion
           [] cs = STATE_RL_NAVIGATION -> Navigation
           [] cs = STATE_POS_GETDOWN   -> GetDown
           [] cs = STATE_WAITING       -> Waiting
           [] OTHER                    -> GetUp

C1_GetUpTransitions_Step ==
    fsm_current = GetUp =>
      /\ CheckStep => fsm_current' = GetUpTable(running_percent, control_state)
      /\ \A cs \in STATES :
            RLFSMStateGetUp_checkChange(running_percent, cs)
                = GetUpTable(running_percent, cs)

\* C1: StandUp never leaves before its ramp is complete: while progress < 1
\* the next state is StandUp whatever is requested; once progress >= 1 the
\* next state is Locomotion, Navigation, SitDown or Idle exactly when that
\* mode is requested, and StandUp for every other request (StandUp, Climb,
\* the simulation requests).  Stated of every step that evaluates the
\* transition and of every request value at every progress reached.
C1_GetUpTransitions == [][C1_GetUpTransitions_Step]_vars

\* StandUp has run, its ramp is not complete, Locomotion is requested and the
\* transition has been evaluated: the machine is still in StandUp
C1_Witness ==
    /\ fsm_current = GetUp
    /\ pc_fast = "SetCommand"
    /\ ticks > 0
    /\ FLt(running_percent, OneF)
    /\ control_state = STATE_RL_LOCOMOTION

\* the transition table of the learned states
LearnedTable(st, cs) ==
    CASE cs = STATE_POS_GETDOWN   -> GetDown
      [] cs = STATE_POS_GETUP     -> GetUp
      [] cs = STATE_RL_LOCOMOTION -> Locomotion
      [] cs = STATE_RL_NAVIGATION -> Navigation
      [] cs = STATE_WAITING       -> Waiting
      [] OTHER                    -> st

RequestOf(st) == IF st = Locomotion THEN STATE_RL_LOCOMOTION ELSE STATE_RL_NAVIGATION

C2_LearnedTransitions_Step ==
    (fsm_current \in Learned /\ CheckStep) =>
        /\ fsm_current' = LearnedTable(fsm_current, control_state)
        /\ control_state = RequestOf(fsm_current) =>
              /\ fsm_current' = fsm_current
              /\ UNCHANGED <<rl_init_done, out_vars, running_percent,
                             control_state, starved>>
        /\ \A cs \in STATES :
              /\ RLFSMStateRL_Locomotion_checkChange(cs) = LearnedTable(Locomotion, cs)
              /\ RLFSMStateRL_Navigation_checkChange(cs) = LearnedTable(Navigation, cs)

\* C2: in Locomotion and Navigation every evaluation of the transition moves
\* to the requested mode when that is StandUp, SitDown, Idle or the other
\* learned mode; a request for the current learned mode leaves the state as
\* it is without exit or enter (ready flag, outputs and progress unchanged);
\* any other request leaves the state unchanged.
C2_LearnedTransitions == [][C2_LearnedTransitions_Step]_vars

\* Navigation is ready, has run at least once and has been kept through an
\* evaluation of the transition while Navigation is the requested mode
C2_Witness ==
    /\ fsm_current = Navigation
    /\ pc_fast = "SetCommand"
    /\ control_state = STATE_RL_NAVIGATION
    /\ rl_init_done
    /\ starved > 0

\* the transition table of SitDown
GetDownTable(rp, cs) ==
    IF ~FLt(rp, OneF) THEN Waiting
    ELSE IF cs = STATE_POS_GETUP THEN GetUp
    ELSE GetDown

C3_GetDownTransitions_Step ==
    fsm_current = GetDown =>
      /\ fsm_current' \notin Learned
      /\ CheckStep => fsm_current' = GetDownTable(running_percent, control_state)
      /\ \A cs \in STATES :
            RLFSMStateGetDown_checkChange(running_percent, cs)
                = GetDownTable(running_percent, cs)

\* C3: in SitDown, progress >= 1 leads to Idle whatever is requested (also
\* when StandUp is requested); otherwise a StandUp request leads to StandUp;
\* otherwise the machine stays in SitDown.  No step takes SitDown to
\* Locomotion or Navigation.
C3_GetDownTransitions == [][C3_GetDownTransitions_Step]_vars

\* Idle has just been entered after a SitDown ramp (the command still has the
\* ramp's gains) while StandUp is the requested mode
C3_Witness ==
    /\ fsm_current = Waiting
    /\ pc_fast = "SetCommand"
    /\ running_percent = ZeroF
    /\ robot_command.kp = fixed_kp
    /\ control_state = STATE_POS_GETUP

C4_WaitingTransitions_Step ==
    fsm_current = Waiting =>
      /\ fsm_current' \in {Waiting, GetUp}
      /\ CheckStep =>
            fsm_current' = IF control_state = STATE_POS_GETUP THEN GetUp ELSE Waiting
      /\ \A cs \in STATES :
            RLFSMStateWaiting_checkChange(cs)
                = IF cs = STATE_POS_GETUP THEN GetUp ELSE Waiting

\* C4: the machine starts in Idle; from Idle the only other next state is
\* StandUp, taken exactly when StandUp is requested; every other request
\* leaves the machine in Idle.
C4_WaitingTransitions ==
    /\ fsm_current = Waiting
    /\ [][C4_WaitingTransitions_Step]_vars

\* a full Idle tick has been sent with Locomotion requested, and the machine
\* is again in Idle after the next evaluation
C4_Witness ==
    /\ fsm_current = Waiting
    /\ pc_fast = "SetCommand"
    /\ control_state = STATE_RL_LOCOMOTION
    /\ low_command # InitLowCmd

C5_FallbackNextTick_Step ==
    /\ (CheckStep /\ enter_failed') =>
          (~rl_init_done' /\ control_state' = STATE_POS_GETUP)
    /\ (CheckStep /\ enter_failed) => fsm_current' = GetUp

\* C5: when InitRL fails in enter() of Locomotion or Navigation the ready
\* flag is cleared and StandUp becomes the requested mode, and the next
\* evaluation of the transition (the next fast tick) always moves the
\* machine to StandUp.
C5_FallbackNextTick == [][C5_FallbackNextTick_Step]_vars

C6_ProgressMonotone_Step ==
    /\ FLe(running_percent', OneF)
    /\ (fsm_current \in Ramps /\ fsm_current' = fsm_current) =>
          /\ FLe(running_percent, running_percent')
          /\ running_percent = OneF => running_percent' = OneF
    /\ (running_percent' = ZeroF /\ running_percent # ZeroF) =>
          (CheckStep /\ fsm_current' # fsm_current)
    /\ RunStep => (running_percent' = ZeroF => running_percent = ZeroF)

\* C6: within one activation of StandUp or SitDown progress never decreases
\* from one step to the next, never exceeds 1 and stays at 1 once there; it
\* goes back to 0 only in a step that enters a state, never in run().
C6_ProgressMonotone == [][C6_ProgressMonotone_Step]_vars

\* StandUp has reached progress 1 and has been ticked again at 1
C6_Witness ==
    /\ fsm_current = GetUp
    /\ running_percent = OneF
    /\ ticks = MaxTicks
    /\ pc_fast = "checkChange"

\* C7: after exactly 500 StandUp ticks progress is exactly 1.0 and every
\* DOF is commanded to its default position; after fewer ticks progress < 1.
C7_RampIn500Ticks ==
    fsm_current = GetUp =>
      /\ ticks < 500 => FLt(running_percent, OneF)
      /\ ticks = 500 =>
            /\ running_percent = OneF
            /\ robot_command.q = ExactVec(default_dof_pos)

Starved == output_dof_pos_queue = << >> /\ output_dof_vel_queue = << >>

C8_StarvedHold_Step ==
    (RunStep /\ fsm_current \in Learned /\ Starved) => robot_command' = robot_command

\* C8: a learned-mode tick that finds both hand-off queues empty leaves every
\* field of JointCommand (q, dq, kp, kd, tau of every DOF) as it was, however
\* many such ticks follow each other.
C8_StarvedHold == [][C8_StarvedHold_Step]_vars

\* a learned command was applied and then MaxStarved ticks in a row found
\* the queues empty
C8_Witness ==
    /\ fsm_current \in Learned
    /\ starved = MaxStarved
    /\ robot_command.kp = rl_kp
    /\ pc_fast = "checkChange"

\* C9: the fast task never waits for the slow task: wherever the slow task
\* stands and whatever the queues hold, the next step of the fast tick
\* (GetState, run, checkChange / exit / enter, SetCommand) can be taken.
C9_FastNeverWaits == ENABLED FastStep

\* a learned-mode tick that found the queues empty while the slow task was in
\* the middle of a tick has been completed and sent
C9_Witness ==
    /\ fsm_current \in Learned
    /\ rl_init_done
    /\ starved > 0
    /\ pc_slow = "push_pos"
    /\ pc_fast = "GetState"
    /\ low_command = SetCommand(robot_command)

\* no step of the slow task writes the state machine's state, the requested
\* mode or the command
SlowFrame_Step ==
    SlowStep => UNCHANGED <<fsm_vars, control_state, robot_command, low_command,
                            robot_state, pose_vars, pc_fast>>

SlowFrame == [][SlowFrame_Step]_vars

C10_OnlyThroughQueue_Step ==
    /\ SlowStep => UNCHANGED fsm_vars
    /\ (RunStep /\ fsm_current \in Learned
          /\ output_dof_pos_queue # << >> /\ output_dof_vel_queue # << >>) =>
          /\ robot_command'.q = ExactVec(Head(output_dof_pos_queue))
          /\ robot_command'.dq = Head(output_dof_vel_queue)

\* C10: current mode, progress counter and ready flag are written by the
\* fast task only (no slow-task step changes them), and what the slow task
\* passes to the fast task passes through the hand-off queue: the targets a
\* learned tick applies are the ones it popped.
C10_OnlyThroughQueue == [][C10_OnlyThroughQueue_Step]_vars

(***************************************************************************)
(* SpecShared: GetState, RunModel and the ' ' key of KeyboardInterface at   *)
(* the granularity of their single assignments.  None of them takes a lock, *)
(* so the assignments of the three threads interleave freely.  Locomotion  *)
(* is active and ready (Walking), so RunModel does its reads.              *)
(***************************************************************************)
MaxMsg == 2
MaxUpdates == 3

Messages == 1..MaxMsg

WalkingCommand ==
    [q |-> ExactVec(default_dof_pos), dq |-> Zeros, kp |-> fixed_kp, kd |-> fixed_kd, tau |-> Zeros]

\* Locomotion has just been entered from a complete StandUp
Walking ==
    /\ fsm_current = Locomotion
    /\ running_percent = OneF
    /\ control_state = STATE_RL_LOCOMOTION
    /\ rl_init_done = TRUE
    /\ robot_state = GetState_motor(SampleA)
    /\ now_state = GetState_motor(SampleA)
    /\ start_state = GetState_motor(SampleA)
    /\ robot_command = WalkingCommand
    /\ low_command = SetCommand(WalkingCommand)
    /\ output_dof_pos = InitOutputs.pos
    /\ output_dof_vel = InitOutputs.vel
    /\ output_dof_tau = InitOutputs.tau
    /\ output_dof_pos_queue = << >>
    /\ output_dof_vel_queue = << >>
    /\ output_dof_tau_queue = << >>
    /\ pc_fast = "GetState"
    /\ pc_slow = "RunModel"
    /\ ticks = 0
    /\ starved = 0
    /\ enter_failed = FALSE
    /\ ExtInit

core_vars == <<fsm_vars, control_state, robot_state, pose_vars, robot_command, low_command,
               out_vars, queue_vars, pc_fast, pc_slow, hist_vars>>

pipeline_vars == <<obs_vars, buffer_vars, dec_vars>>

GetStateField(at, next) ==
    /\ pc_get = at
    /\ pc_get' = next
    /\ UNCHANGED <<core_vars, obs, pc_run, pc_key, exit_vars, log_vars, pipeline_vars>>

\* this->control.x = this->joystick.ly();  a new tick copies a new message
GetState_x ==
    /\ updates < MaxUpdates
    /\ GetStateField("x", "y")
    /\ \E m \in Messages :
          /\ msg' = m
          /\ control' = [control EXCEPT !.x = m]
    /\ updates' = updates + 1
    /\ UNCHANGED state_fields

\* this->control.y = -this->joystick.lx();
GetState_y ==
    /\ GetStateField("y", "yaw")
    /\ control' = [control EXCEPT !.y = 0 - msg]
    /\ UNCHANGED <<state_fields, msg, updates>>

\* this->control.yaw = -this->joystick.rx();
GetState_yaw ==
    /\ GetStateField("yaw", "quaternion")
    /\ control' = [control EXCEPT !.yaw = 0 - msg]
    /\ UNCHANGED <<state_fields, msg, updates>>

GetState_quaternion ==
    /\ GetStateField("quaternion", "gyroscope")
    /\ state_fields' = [state_fields EXCEPT !.quaternion = msg]
    /\ UNCHANGED <<control, msg, updates>>

GetState_gyroscope ==
    /\ GetStateField("gyroscope", "q")
    /\ state_fields' = [state_fields EXCEPT !.gyroscope = msg]
    /\ UNCHANGED <<control, msg, updates>>

GetState_q ==
    /\ GetStateField("q", "dq")
    /\ state_fields' = [state_fields EXCEPT !.q = msg]
    /\ UNCHANGED <<control, msg, updates>>

\* the last assignment of GetState; the rest of the tick touches none of the fields
GetState_dq ==
    /\ GetStateField("dq", "x")
    /\ state_fields' = [state_fields EXCEPT !.dq = msg]
    /\ UNCHANGED <<control, msg, updates>>

RunModelField(at, next) ==
    /\ rl_init_done
    /\ pc_run = at
    /\ pc_run' = next
    /\ UNCHANGED <<core_vars, control, state_fields, msg, pc_get, pc_key, updates,
                   exit_vars, log_vars, pipeline_vars>>

\* this->obs.ang_vel = torch::tensor(this->robot_state.imu.gyroscope)
RunModel_ang_vel ==
    /\ RunModelField("ang_vel", "commands_x")
    /\ obs' = [obs EXCEPT !.ang_vel = state_fields.gyroscope]

\* this->obs.commands = torch::tensor({{control.x, control.y, control.yaw}}): three reads
RunModel_commands_x ==
    /\ RunModelField("commands_x", "commands_y")
    /\ obs' = [obs EXCEPT !.commands[1] = control.x]

RunModel_commands_y ==
    /\ RunModelField("commands_y", "commands_yaw")
    /\ obs' = [obs EXCEPT !.commands[2] = control.y]

RunModel_commands_yaw ==
    /\ RunModelField("commands_yaw", "base_quat")
    /\ obs' = [obs EXCEPT !.commands[3] = control.yaw]

RunModel_base_quat ==
    /\ RunModelField("base_quat", "dof_pos")
    /\ obs' = [obs EXCEPT !.base_quat = state_fields.quaternion]

RunModel_dof_pos ==
    /\ RunModelField("dof_pos", "dof_vel")
    /\ obs' = [obs EXCEPT !.dof_pos = state_fields.q]

RunModel_dof_vel ==
    /\ RunModelField("dof_vel", "Forward")
    /\ obs' = [obs EXCEPT !.dof_vel = state_fields.dq]

\* Forward, ComputeOutput and the pushes read obs and none of the shared fields
RunModel_Forward ==
    /\ RunModelField("Forward", "ang_vel")
    /\ UNCHANGED obs

KeyField(at, next) ==
    /\ pc_key = at
    /\ pc_key' = next
    /\ UNCHANGED <<core_vars, state_fields, obs, msg, pc_get, pc_run,
                   exit_vars, log_vars, pipeline_vars>>

\* case ' ': this->control.x = 0;
KeyboardInterface_space_x ==
    /\ updates < MaxUpdates
    /\ KeyField("x", "y")
    /\ control' = [control EXCEPT !.x = 0]
    /\ updates' = updates + 1

\* this->control.y = 0;
KeyboardInterface_space_y ==
    /\ KeyField("y", "yaw")
    /\ control' = [control EXCEPT !.y = 0]
    /\ UNCHANGED updates

\* this->control.yaw = 0;
KeyboardInterface_space_yaw ==
    /\ KeyField("yaw", "x")
    /\ control' = [control EXCEPT !.yaw = 0]
    /\ UNCHANGED updates

NextShared ==
    \/ GetState_x
    \/ GetState_y
    \/ GetState_yaw
    \/ GetState_quaternion
    \/ GetState_gyroscope
    \/ GetState_q
    \/ GetState_dq
    \/ RunModel_ang_vel
    \/ RunModel_commands_x
    \/ RunModel_commands_y
    \/ RunModel_commands_yaw
    \/ RunModel_base_quat
    \/ RunModel_dof_pos
    \/ RunModel_dof_vel
    \/ RunModel_Forward
    \/ KeyboardInterface_space_x
    \/ KeyboardInterface_space_y
    \/ KeyboardInterface_space_yaw

SpecShared == Walking /\ [][NextShared]_vars

\* what one update leaves in control: all zero (InitControl, the ' ' key) or
\* the three axes of one joystick message
ControlUpdates ==
    {<<0, 0, 0>>} \cup {<<m, 0 - m, 0 - m>> : m \in Messages}

\* C11: the velocity intent the slow task has read (forward, lateral, yaw
\* rate) is what one single update of ControlTarget wrote, never a mix of the
\* fields of two updates.
C11_ControlAtomic ==
    pc_run \notin {"commands_y", "commands_yaw"} => obs.commands \in ControlUpdates

\* C12: the RobotState the slow task has read for one observation (angular
\* velocity, orientation, joint positions, joint velocities) was written by
\* one single fast tick.
C12_StateSnapshot ==
    pc_run = "Forward" =>
        \E m \in Messages \cup {0} :
            /\ obs.ang_vel = m
            /\ obs.base_quat = m
            /\ obs.dof_pos = m
            /\ obs.dof_vel = m

(***************************************************************************)
(* SpecExit: the three tasks and SIGINT.  main() installs signalHandler,   *)
(* which calls exit(0): the process ends wherever the three threads stand  *)
(* (rl_sar is a local of main, so ~RL_Real and the shutdown() of the three *)
(* loops are not run).  Nothing steps once the process has ended.          *)
(***************************************************************************)
signalHandler ==
    /\ ~exited
    /\ exited' = TRUE
    /\ UNCHANGED <<core_vars, field_vars, log_vars, pipeline_vars>>

NextExit ==
    \/ ~exited /\ FastGetStateRL
    \/ ~exited /\ FastRunGetUpRL
    \/ ~exited /\ FastRunGetDownRL
    \/ ~exited /\ FastRunLearned
    \/ ~exited /\ FastStay
    \/ ~exited /\ FastToGetUp
    \/ ~exited /\ FastToGetDown
    \/ ~exited /\ FastToLearned
    \/ ~exited /\ FastSetCommand
    \/ ~exited /\ SlowInfer
    \/ ~exited /\ SlowPushPos
    \/ ~exited /\ SlowPushVel
    \/ ~exited /\ SlowPushTau
    \/ ~exited /\ KeyboardInterface
    \/ signalHandler

SpecExit == Standing /\ [][NextExit]_vars

\* C13: after the shutdown signal every task completes the tick it is
\* executing and starts no other: once the process has ended, neither the
\* fast nor the slow task is left in the middle of a tick.
C13_ShutdownCompletesTicks ==
    exited => (pc_fast = "GetState" /\ pc_slow = "RunModel")

(***************************************************************************)
(* SpecObs: InitRL followed by calls of RL::ComputeObservation, for every  *)
(* term list of up to MaxTerms names a config can hold.  Numbers are       *)
(* integers.  The sines and cosines of the two phase terms are inputs: any *)
(* values in [-1, 1].                                                      *)
(***************************************************************************)
MaxTerms == 2

\* the names ComputeObservation has a branch for
RecognisedTerms ==
    {"lin_vel", "ang_vel_body", "ang_vel_world", "gravity_vec", "commands",
     "dof_pos", "dof_vel", "actions", "phase", "g1_phase"}

\* what a config can name: these, "ang_vel" (rewritten by InitRL), and names
\* no branch exists for
TermNames == RecognisedTerms \cup {"ang_vel", "base_height"}

TermLists == UNION {[1..n -> TermNames] : n \in 0..MaxTerms}

Clips == {1, 3}
Frameworks == {"isaacsim", "isaacgym"}

lin_vel_scale == 2
ang_vel_scale == 1
dof_pos_scale == 1
dof_vel_scale == 3
commands_scale == <<2, 2, 1>>

\* rl.obs as RunModel has filled it, and the sines / cosines of the phase terms
ObsA ==
    [lin_vel |-> <<1, 0, 0 - 1>>, ang_vel |-> <<0, 2, 0>>, gravity_vec |-> <<0, 0, 0 - 1>>,
     commands |-> <<1, 0 - 1, 0>>, base_quat |-> <<0, 0, 0, 1>>,
     dof_pos |-> [i \in DOFs |-> i + 2], dof_vel |-> [i \in DOFs |-> i - 1],
     actions |-> [i \in DOFs |-> 0 - 4],
     phase |-> <<0, 1, 0, 1, 0, 1>>, g1_phase |-> <<0, 1>>]

ObsB ==
    [lin_vel |-> <<0, 0, 0>>, ang_vel |-> <<1, 0 - 3, 2>>, gravity_vec |-> <<0, 0, 0 - 1>>,
     commands |-> <<0, 2, 0 - 2>>, base_quat |-> <<1, 0, 0, 0>>,
     dof_pos |-> [i \in DOFs |-> i], dof_vel |-> [i \in DOFs |-> 0],
     actions |-> [i \in DOFs |-> i],
     phase |-> <<1, 0, 0 - 1, 0, 1, 0>>, g1_phase |-> <<0 - 1, 0>>]

ObsInputs == {ObsA, ObsB}

Scale(v, k) == [i \in DOMAIN v |-> v[i] * k]

Cross(a, b) ==
    <<a[2] * b[3] - a[3] * b[2], a[3] * b[1] - a[1] * b[3], a[1] * b[2] - a[2] * b[1]>>

Dot(a, b) == a[1] * b[1] + a[2] * b[2] + a[3] * b[3]

\* RL::QuatRotateInverse: a - b + c
QuatRotateInverse(q, v, framework) ==
    LET q_w   == IF framework = "isaacsim" THEN q[1] ELSE q[4]
        q_vec == IF framework = "isaacsim" THEN <<q[2], q[3], q[4]>> ELSE <<q[1], q[2], q[3]>>
        a     == Scale(v, 2 * q_w * q_w - 1)
        b     == Scale(Cross(q_vec, v), q_w * 2)
        c     == Scale(q_vec, Dot(q_vec, v) * 2)
    IN  [i \in 1..3 |-> a[i] - b[i] + c[i]]

\* one pass of the loop body of ComputeObservation: what the branch taken for
\* this name pushes to obs_list; a name without a branch pushes nothing
ObsTerm(observation, in, framework) ==
    CASE observation = "lin_vel" ->
            Scale(in.lin_vel, lin_vel_scale)
      [] observation = "ang_vel_body" ->
            Scale(in.ang_vel, ang_vel_scale)
      [] observation = "ang_vel_world" ->
            Scale(QuatRotateInverse(in.base_quat, in.ang_vel, framework), ang_vel_scale)
      [] observation = "gravity_vec" ->
            QuatRotateInverse(in.base_quat, in.gravity_vec, framework)
      [] observation = "commands" ->
            [i \in 1..3 |-> in.commands[i] * commands_scale[i]]
      [] observation = "dof_pos" ->
            Scale([i \in DOFs |-> IF i \in wheel_indices THEN 0
                                   ELSE in.dof_pos[i] - default_dof_pos[i]],
                  dof_pos_scale)
      [] observation = "dof_vel" ->
            Scale(in.dof_vel, dof_vel_scale)
      [] observation = "actions" ->
            in.actions
      [] observation = "phase" ->
            in.phase
      [] observation = "g1_phase" ->
            in.g1_phase
      [] OTHER ->
            << >>

\* obs_list: one entry per name that has a branch
RECURSIVE ObsList(_, _, _)
ObsList(names, in, framework) ==
    IF names = << >> THEN << >>
    ELSE LET rest == ObsList(Tail(names), in, framework)
         IN  IF Head(names) \in RecognisedTerms
             THEN <<ObsTerm(Head(names), in, framework)>> \o rest
             ELSE rest

\* torch::cat(obs_list, 1)
RECURSIVE Cat(_)
Cat(list) == IF list = << >> THEN << >> ELSE Head(list) \o Cat(Tail(list))

\* mutant: the row is returned as concatenated
ClampRow_NoClamp(row, clip) == row

\* torch::clamp(obs, -clip_obs, clip_obs)
ClampRow(row, clip) == [i \in DOMAIN row |-> Clamp(row[i], 0 - clip, clip)]

\* InitRL rewrites "ang_vel" according to is_simulation
RenameAngVel(names, is_simulation) ==
    [i \in DOMAIN names |->
        IF names[i] = "ang_vel"
        THEN (IF is_simulation THEN "ang_vel_world" ELSE "ang_vel_body")
        ELSE names[i]]

not_obs_vars == <<core_vars, field_vars, exit_vars, log_vars, buffer_vars, dec_vars>>

\* RL::InitRL as far as the term list goes: ReadYamlRL stores the names, the
\* loop rewrites "ang_vel", torch::jit::load returns or throws.  No name is
\* compared with the names ComputeObservation knows.  Everything InitRL
\* writes it writes whatever was there before, so a second activation
\* reaches the states the first one reaches: one activation is followed.
InitRL ==
    /\ obs_status = "none"
    /\ \E names \in TermLists, clip \in Clips, is_simulation \in BOOLEAN, loaded \in BOOLEAN :
          /\ observations' = RenameAngVel(names, is_simulation)
          /\ clip_obs' = clip
          /\ obs_status' = IF loaded THEN "done" ELSE "throw"
    /\ obs_cat' = << >>
    /\ clamped_obs' = << >>
    /\ UNCHANGED not_obs_vars

\* RL::ComputeObservation, called by Forward once InitRL has returned
ComputeObservation ==
    /\ obs_status = "done"
    /\ \E in \in ObsInputs, framework \in Frameworks :
          LET obs_list == ObsList(observations, in, framework)
          IN  IF obs_list = << >>
              THEN /\ obs_status' = "cat_throw"
                   /\ UNCHANGED <<obs_cat, clamped_obs>>
              ELSE /\ obs_cat' = Cat(obs_list)
                   /\ clamped_obs' = ClampRow(Cat(obs_list), clip_obs)
                   /\ UNCHANGED obs_status
    /\ UNCHANGED <<observations, clip_obs, not_obs_vars>>

NextObs ==
    \/ InitRL
    \/ ComputeObservation

SpecObs == Init /\ [][NextObs]_vars

HasUnknownTerm == \E i \in DOMAIN observations : observations[i] \notin RecognisedTerms

\* C14: a term name that is not one of the recognised terms makes the
\* activation fail (InitRL does not return normally), and no observation row
\* is ever assembled from a list that holds such a name.
C14_UnknownTermFails ==
    HasUnknownTerm => (obs_status \in {"none", "throw"} /\ clamped_obs = << >>)

\* the widths of the terms, as the table of the specification gives them
TermWidth(name) ==
    CASE name \in {"lin_vel", "ang_vel_body", "ang_vel_world", "gravity_vec", "commands"} -> 3
      [] name \in {"dof_pos", "dof_vel", "actions"} -> NumDofs
      [] name = "phase" -> 6
      [] name = "g1_phase" -> 2

RECURSIVE SumWidths(_)
SumWidths(names) ==
    IF names = << >> THEN 0 ELSE TermWidth(Head(names)) + SumWidths(Tail(names))

\* C17: the row returned for a list of recognised terms is as long as the
\* sum of the widths of its terms; every element that was outside
\* [-clip, clip] before clamping is exactly the nearer bound and every
\* element inside is returned unchanged.
C17_RowLengthAndClamp ==
    (clamped_obs # << >> /\ ~HasUnknownTerm) =>
        /\ Len(clamped_obs) = SumWidths(observations)
        /\ Len(obs_cat) = Len(clamped_obs)
        /\ \A i \in 1..Len(clamped_obs) :
              /\ obs_cat[i] > clip_obs => clamped_obs[i] = clip_obs
              /\ obs_cat[i] < 0 - clip_obs => clamped_obs[i] = 0 - clip_obs
              /\ (obs_cat[i] >= 0 - clip_obs /\ obs_cat[i] <= clip_obs) =>
                    clamped_obs[i] = obs_cat[i]

\* a row of two terms (joint velocities, then last actions) in which one
\* element was lowered to clip, one raised to -clip and one left as it was
C17_Witness ==
    /\ observations = <<"dof_vel", "actions">>
    /\ clip_obs = 1
    /\ Len(clamped_obs) = 2 * NumDofs
    /\ \E i \in 1..Len(clamped_obs) : obs_cat[i] > 1 /\ clamped_obs[i] = 1
    /\ \E i \in 1..Len(clamped_obs) : obs_cat[i] < 0 - 1 /\ clamped_obs[i] = 0 - 1
    /\ \E i \in 1..Len(clamped_obs) : obs_cat[i] = 0 /\ clamped_obs[i] = 0

(***************************************************************************)
(* The two bound checks of the SDK next to the running loops.  RunModel's  *)
(* calls are commented out in this build (rl_real_go2.cpp 205-206); the    *)
(* functions are modelled as callable at any moment, with any torque row   *)
(* and any quaternion, and with the thresholds of the commented call.      *)
(* `log` is the warning the last printing call wrote to std::cout.         *)
(***************************************************************************)
pitch_threshold == 75
roll_threshold == 75

TorqueInputs == [DOFs -> {0 - (TorqueLimit + 1), TorqueLimit, TorqueLimit + 1}]
\* as (w, x, y, z): upright, rolled, pitched, rolled and pitched
Quaternions == {<<1, 0, 0, 0>>, <<1, 1, 0, 0>>, <<1, 0, 1, 0>>, <<1, 1, 1, 0>>}
FrameworkStrings == Frameworks \cup {"mujoco"}

Abs(n) == IF n < 0 THEN 0 - n ELSE n

\* the indices TorqueProtect collects in out_of_range_indices
out_of_range_indices(tau) ==
    {i \in DOFs : tau[i] < 0 - torque_limits[i] \/ tau[i] > torque_limits[i]}

\* mutant: the commented-out protection of TorqueProtect is switched on
TorqueProtect_GetDown ==
    /\ \E tau \in TorqueInputs :
          IF out_of_range_indices(tau) # {}
          THEN log' = "torque" /\ control_state' = STATE_POS_GETDOWN
          ELSE UNCHANGED <<log, control_state>>
    /\ UNCHANGED <<fsm_vars, robot_state, pose_vars, robot_command, low_command,
                   out_vars, queue_vars, pc_fast, pc_slow, hist_vars>>
    /\ UNCHANGED <<field_vars, exit_vars, pipeline_vars>>

\* RL::TorqueProtect: one warning per out-of-range joint, nothing else
TorqueProtect ==
    /\ \E tau \in TorqueInputs :
          log' = IF out_of_range_indices(tau) # {} THEN "torque" ELSE log
    /\ UNCHANGED <<core_vars, field_vars, exit_vars, pipeline_vars>>

\* w, x, y, z as AttitudeProtect picks them; with any other framework string
\* neither branch assigns them and they hold whatever the stack held
AttitudeWXYZ(quaternion, framework) ==
    IF framework = "isaacgym"
    THEN {[w |-> quaternion[4], x |-> quaternion[1], y |-> quaternion[2], z |-> quaternion[3]]}
    ELSE IF framework = "isaacsim"
         THEN {[w |-> quaternion[1], x |-> quaternion[2], y |-> quaternion[3], z |-> quaternion[4]]}
         ELSE {[w |-> stack[1], x |-> stack[2], y |-> stack[3], z |-> stack[4]] :
                  stack \in Quaternions}

\* |atan2(sinr_cosp, cosr_cosp)| > 75 degrees, decided without rounding:
\* tan 75 = 2 + sqrt 3, so for c > 0 the test is |s| - 2c > sqrt 3 * c
RollExceeds(sinr_cosp, cosr_cosp) ==
    IF cosr_cosp > 0
    THEN /\ Abs(sinr_cosp) - 2 * cosr_cosp > 0
         /\ (Abs(sinr_cosp) - 2 * cosr_cosp) * (Abs(sinr_cosp) - 2 * cosr_cosp)
               > 3 * cosr_cosp * cosr_cosp
    ELSE sinr_cosp # 0 \/ cosr_cosp < 0

\* |pitch| > 75 degrees: pitch is +-90 when |sinp| >= 1; an integer sinp
\* with |sinp| < 1 is 0 and asin(0) = 0
PitchExceeds(sinp) == Abs(sinp) >= 1 /\ 90 > pitch_threshold

AttitudeWarning(a) ==
    LET sinr_cosp == 2 * (a.w * a.x + a.y * a.z)
        cosr_cosp == 1 - 2 * (a.x * a.x + a.y * a.y)
        sinp      == 2 * (a.w * a.y - a.z * a.x)
        roll      == RollExceeds(sinr_cosp, cosr_cosp) /\ roll_threshold = 75
        pitch     == PitchExceeds(sinp)
    IN  IF roll /\ pitch THEN "roll+pitch"
        ELSE IF roll THEN "roll"
        ELSE IF pitch THEN "pitch"
        ELSE "none"

\* RL::AttitudeProtect: up to two warnings, nothing else
AttitudeProtect ==
    /\ \E quaternion \in Quaternions, framework \in FrameworkStrings :
          \E a \in AttitudeWXYZ(quaternion, framework) :
             log' = IF AttitudeWarning(a) # "none" THEN AttitudeWarning(a) ELSE log
    /\ UNCHANGED <<core_vars, field_vars, exit_vars, pipeline_vars>>

NextProtect ==
    \/ FastGetStateRL
    \/ FastRunLearned
    \/ FastStay
    \/ FastSetCommand
    \/ SlowInfer
    \/ SlowPushPos
    \/ SlowPushVel
    \/ SlowPushTau
    \/ TorqueProtect
    \/ AttitudeProtect

SpecProtect == Walking /\ [][NextProtect]_vars

C15_ChecksAdvisory_Step ==
    (TorqueProtect \/ AttitudeProtect) =>
        UNCHANGED <<control_state, fsm_current, robot_command, queue_vars>>

\* C15: a call of the torque check or of the attitude check, with any input,
\* leaves the requested mode, the state-machine state, the joint command and
\* the hand-off queues as they were
C15_ChecksAdvisory == [][C15_ChecksAdvisory_Step]_vars

\* a warning has been printed while a learned mode runs with a target waiting
\* in the queue and a command already taken from the policy
C15_Witness ==
    /\ log \in {"torque", "roll+pitch"}
    /\ fsm_current \in Learned
    /\ output_dof_pos_queue # << >>
    /\ robot_command # WalkingCommand

(***************************************************************************)
(* RL::ComputeOutput on its own: any wheel index set a config can name,    *)
(* any raw action row over a few magnitudes, either sensor sample.          *)
(***************************************************************************)
WheelSets == SUBSET DOFs
RawActions == [DOFs -> {0 - 3, 0, 1, 4}]

\* one call of ComputeOutput; decoder_in keeps what it was called with
Decode ==
    /\ \E wheels \in WheelSets, actions \in RawActions, s \in Samples :
          LET out == ComputeOutputWith(wheels, actions, s.q, s.dq)
          IN  /\ decoder_in' = [wheels |-> wheels, actions |-> actions, obs |-> s]
              /\ output_dof_pos' = out.pos
              /\ output_dof_vel' = out.vel
              /\ output_dof_tau' = out.tau
    /\ UNCHANGED <<fsm_vars, control_state, robot_state, pose_vars, robot_command,
                   low_command, queue_vars, pc_fast, pc_slow, hist_vars>>
    /\ UNCHANGED <<field_vars, exit_vars, log_vars, obs_vars, buffer_vars>>

NextDecoder == Decode

SpecDecoder == Init /\ [][NextDecoder]_vars

\* C16: for every raw action row and every wheel index set, a wheel DOF gets
\* the default position whatever its action and the velocity action x
\* action_scale; a non-wheel DOF gets velocity 0 and the position
\* action x action_scale + default position
C16_ActionDecoder ==
    decoder_in # << >> =>
        \A i \in DOFs :
            IF i \in decoder_in.wheels
            THEN /\ output_dof_pos[i] = default_dof_pos[i]
                 /\ output_dof_vel[i] = decoder_in.actions[i] * action_scale[i]
            ELSE /\ output_dof_vel[i] = 0
                 /\ output_dof_pos[i] = decoder_in.actions[i] * action_scale[i] + default_dof_pos[i]

\* a decoded row with a wheel and a non-wheel DOF, both with a non-zero action
C16_Witness ==
    /\ decoder_in # << >>
    /\ \E i, j \in DOFs :
          /\ i \in decoder_in.wheels /\ decoder_in.actions[i] = 4
          /\ output_dof_pos[i] = default_dof_pos[i]
          /\ j \notin decoder_in.wheels /\ decoder_in.actions[j] = 0 - 3
          /\ output_dof_vel[j] = 0

(***************************************************************************)
(* The history path of Forward.  InitRL builds the buffer with             *)
(* observations_history.size() as its number of history steps; the buffer  *)
(* itself (insert, get_obs_vec) is a ring as the specification describes    *)
(* it: filled with the first row on first use, oldest row evicted, offset 0 *)
(* the newest row, an offset the ring does not reach answered with the      *)
(* oldest row it holds.  `inserted` records every row handed to insert.     *)
(***************************************************************************)
MaxLookback == 2
MaxInserts == 3

Lookbacks == 0..MaxLookback
OffsetLists == UNION {[1..n -> Lookbacks] : n \in 0..(MaxLookback + 1)}
Rows == {<<1>>, <<2>>, <<3>>}

\* the third constructor argument at InitRL
include_history_steps == Len(observations_history)

ObservationBuffer_insert(buf, row) ==
    IF buf = << >>
    THEN [i \in 1..include_history_steps |-> row]
    ELSE Tail(buf) \o <<row>>

ObservationBuffer_row(buf, k) ==
    IF k < Len(buf) THEN buf[Len(buf) - k] ELSE buf[1]

ObservationBuffer_get_obs_vec(buf, obs_ids) ==
    Cat([i \in 1..Len(obs_ids) |-> ObservationBuffer_row(buf, obs_ids[i])])

not_buffer_vars == <<core_vars, field_vars, exit_vars, log_vars, dec_vars,
                     observations, clip_obs, obs_cat>>

\* RL::InitRL as far as the history goes: ReadYamlRL stores the offsets and
\* a fresh buffer is built when there are any.  One activation is followed.
InitRL_history ==
    /\ obs_status = "none"
    /\ \E offsets \in OffsetLists : observations_history' = offsets
    /\ obs_status' = "done"
    /\ history_obs_buf' = << >>
    /\ history_obs' = << >>
    /\ inserted' = << >>
    /\ UNCHANGED <<not_buffer_vars, clamped_obs>>

\* RL_Real::Forward with the row ComputeObservation returned: with offsets
\* configured the row is inserted and the policy input is rebuilt, without
\* any the policy reads the row itself
Forward ==
    /\ obs_status = "done"
    /\ Len(inserted) < MaxInserts
    /\ \E row \in Rows :
          /\ clamped_obs' = row
          /\ IF observations_history # << >>
             THEN /\ history_obs_buf' = ObservationBuffer_insert(history_obs_buf, row)
                  /\ history_obs' = ObservationBuffer_get_obs_vec(
                                        ObservationBuffer_insert(history_obs_buf, row),
                                        observations_history)
                  /\ inserted' = Append(inserted, row)
             ELSE UNCHANGED <<history_obs_buf, history_obs, inserted>>
    /\ UNCHANGED <<not_buffer_vars, obs_status, observations_history>>

NextHist ==
    \/ InitRL_history
    \/ Forward

SpecHist == Init /\ [][NextHist]_vars

\* C18: once the rows asked for have all been inserted, the rebuilt policy
\* input is, for each configured offset k in configured order, the row
\* inserted k insertions ago (offset 0 the most recent)
C18_HistoryOrdering ==
    (/\ inserted # << >>
     /\ \A i \in 1..Len(observations_history) : observations_history[i] < Len(inserted))
    =>
        history_obs = Cat([i \in 1..Len(observations_history) |->
                              inserted[Len(inserted) - observations_history[i]]])

C20_PerFieldHold_Step ==
    (/\ RunStep
     /\ fsm_current \in Learned
     /\ output_dof_pos_queue # << >>
     /\ output_dof_vel_queue = << >>)
    =>
        /\ robot_command'.q = ExactVec(Head(output_dof_pos_queue))
        /\ robot_command'.dq = robot_command.dq

\* C20: a learned-mode tick that finds a new position target but no new
\* velocity target writes the position field from that target and keeps
\* only the velocity field as it was
C20_PerFieldHold == [][C20_PerFieldHold_Step]_vars

C21_LearnedGains_Step ==
    (RunStep /\ fsm_current \in Learned) =>
        /\ robot_command'.kp = rl_kp
        /\ robot_command'.kd = rl_kd
        /\ robot_command'.tau = Zeros

\* C21: after every Locomotion or Navigation tick, a tick that finds the
\* hand-off queues empty and the first tick after StandUp included, both
\* gains of every DOF are the learned-mode gains and the torque is 0
C21_LearnedGains == [][C21_LearnedGains_Step]_vars

\* C23: in every reachable state the number of entries waiting in each
\* hand-off queue (position, velocity, diagnostic torque) stays under a
\* fixed bound: no queue ever fills the room the model gives it
C23_QueuesBounded ==
    /\ Len(output_dof_pos_queue) < MaxQueue
    /\ Len(output_dof_vel_queue) < MaxQueue
    /\ Len(output_dof_tau_queue) < MaxQueue

C28_ReadyOnlyLearned_Step ==
    /\ rl_init_done' => fsm_current' \in Learned
    /\ SlowStep => fsm_current \in Learned

\* C28: the ready flag is set only while the current state is Locomotion or
\* Navigation, and no step of the slow task (inference, push of a result) is
\* taken while the current state is Idle, StandUp or SitDown
C28_ReadyOnlyLearned == [][C28_ReadyOnlyLearned_Step]_vars

C29_NoInferenceDuringReload_Step ==
    FastToLearned => pc_slow = "RunModel"

\* C29: when a learned mode is entered (InitRL reloads Config, policy,
\* observation and output buffers) no tick of the slow task is in flight:
\* none that started under the previous activation is still running or
\* completes afterwards
C29_NoInferenceDuringReload == [][C29_NoInferenceDuringReload_Step]_vars

C30_NoStaleActions_Step ==
    /\ FastToLearned =>
          /\ output_dof_pos_queue' = << >>
          /\ output_dof_vel_queue' = << >>
          /\ output_dof_tau_queue' = << >>
    /\ (RunStep /\ fsm_current \in Learned /\ ~rl_init_done) =>
          robot_command' = robot_command

\* C30: when a learned mode is entered the hand-off queues hold no entry
\* produced before that entry, and a learned-mode tick that runs with the
\* ready flag clear leaves JointCommand as it was
C30_NoStaleActions == [][C30_NoStaleActions_Step]_vars

C24_SitDownTarget_Step ==
    /\ (fsm_current # GetUp /\ fsm_current' = GetUp) => start_state' = robot_state
    /\ ~(fsm_current # GetUp /\ fsm_current' = GetUp) => start_state' = start_state
    /\ (fsm_current # GetDown /\ fsm_current' = GetDown) => now_state' = robot_state
    /\ (fsm_current = GetDown /\ fsm_current' = GetDown) => now_state' = now_state
    /\ (RunStep /\ fsm_current = GetDown /\ FLt(running_percent, OneF)) =>
          \A i \in DOFs :
              robot_command'.q[i] = Lerp(running_percent', now_state.q[i], start_state.q[i])

\* C24: the start pose is captured at every StandUp entry and changed by
\* nothing else, the SitDown pose is captured at SitDown entry and kept
\* through SitDown, and every SitDown tick that begins with progress < 1
\* commands lerp(pose at SitDown entry, pose captured at the latest StandUp
\* entry, new progress) for every DOF
C24_SitDownTarget == [][C24_SitDownTarget_Step]_vars

\* SitDown under way from a pose that differs from the one the latest
\* StandUp captured, the interpolated position commanded
C24_Witness ==
    /\ fsm_current = GetDown
    /\ pc_fast = "checkChange"
    /\ FLt(ZeroF, running_percent) /\ FLt(running_percent, OneF)
    /\ \A i \in DOFs : now_state.q[i] # start_state.q[i]
    /\ \A i \in DOFs :
          robot_command.q[i] = Lerp(running_percent, now_state.q[i], start_state.q[i])

C27_IdleWritesPositionOnly_Step ==
    (RunStep /\ fsm_current = Waiting) =>
        /\ robot_command'.q = ExactVec(robot_state.q)
        /\ robot_command'.dq = robot_command.dq
        /\ robot_command'.kp = robot_command.kp
        /\ robot_command'.kd = robot_command.kd
        /\ robot_command'.tau = robot_command.tau

\* C27: a control tick in Idle sets the commanded position of every DOF to
\* the measured position and leaves the velocity target, both gains and the
\* feed-forward torque of JointCommand as they were before the tick
C27_IdleWritesPositionOnly == [][C27_IdleWritesPositionOnly_Step]_vars

\* an Idle tick has run after a SitDown: the position follows the measured
\* pose while the gains SitDown wrote are still in JointCommand
C27_Witness ==
    /\ fsm_current = Waiting
    /\ pc_fast = "checkChange"
    /\ robot_command.q = ExactVec(robot_state.q)
    /\ robot_command.kp = fixed_kp
    /\ robot_command.kd = fixed_kd

\* C26: once the history ring has been filled its capacity is the largest
\* configured offset + 1, whatever the configured offset list
C26_RingCapacity ==
    history_obs_buf # << >> =>
        /\ \A i \in 1..Len(observations_history) :
              observations_history[i] + 1 <= Len(history_obs_buf)
        /\ \E i \in 1..Len(observations_history) :
              observations_history[i] + 1 = Len(history_obs_buf)

(***************************************************************************)
(* SpecPair: Locomotion with the fast and the slow task only, and          *)
(* RL::ComputeOutput at the granularity of its assignments to the members  *)
(* that RLFSMStateRL::run reads without a lock: output_dof_pos first, then *)
(* output_dof_vel and output_dof_tau.  decoder_in keeps the arguments of   *)
(* the call between the two steps.                                         *)
(***************************************************************************)
\* RunModel up to the first assignment of ComputeOutput
SlowComputeOutput_pos ==
    /\ pc_slow = "RunModel"
    /\ rl_init_done
    /\ Len(output_dof_pos_queue) < MaxQueue
    /\ Len(output_dof_vel_queue) < MaxQueue
    /\ Len(output_dof_tau_queue) < MaxQueue
    /\ \E actions \in ActionSet :
          /\ decoder_in' = [wheels |-> wheel_indices, actions |-> actions,
                            obs |-> [q |-> robot_state.q, dq |-> robot_state.dq]]
          /\ output_dof_pos' =
                 ComputeOutput(actions, robot_state.q, robot_state.dq).pos
    /\ pc_slow' = "ComputeOutput_vel"
    /\ UNCHANGED <<fsm_vars, control_state, robot_state, pose_vars, robot_command,
                   low_command, output_dof_vel, output_dof_tau, queue_vars, pc_fast,
                   hist_vars>>
    /\ UNCHANGED <<field_vars, exit_vars, log_vars, obs_vars, buffer_vars>>

\* the remaining assignments of the same call
SlowComputeOutput_rest ==
    /\ pc_slow = "ComputeOutput_vel"
    /\ LET out == ComputeOutput(decoder_in.actions, decoder_in.obs.q, decoder_in.obs.dq)
       IN  /\ output_dof_vel' = out.vel
           /\ output_dof_tau' = out.tau
    /\ pc_slow' = "push_pos"
    /\ UNCHANGED <<fsm_vars, control_state, robot_state, pose_vars, robot_command,
                   low_command, output_dof_pos, queue_vars, pc_fast, hist_vars>>
    /\ UNCHANGED ext_vars

NextPair ==
    \/ FastGetStateRL
    \/ FastRunLearned
    \/ FastStay
    \/ FastSetCommand
    \/ SlowComputeOutput_pos
    \/ SlowComputeOutput_rest
    \/ SlowPushPos
    \/ SlowPushVel
    \/ SlowPushTau

SpecPair == Walking /\ [][NextPair]_vars

C22_SameSlowTick_Step ==
    (/\ RunStep
     /\ fsm_current \in Learned
     /\ output_dof_pos_queue # << >>
     /\ output_dof_vel_queue # << >>)
    =>
        \E actions \in ActionSet, s \in Samples :
            LET out == ComputeOutput(actions, s.q, s.dq)
            IN  /\ robot_command'.q = ExactVec(out.pos)
                /\ robot_command'.dq = out.vel

\* C22: a learned-mode tick that pops a position and a velocity target
\* applies to JointCommand a position and a velocity that one inference
\* step produced together (the decoding of one and the same action row)
C22_SameSlowTick == [][C22_SameSlowTick_Step]_vars

(***************************************************************************)
(* SpecConfig: the fast task and the keyboard around the learned modes,    *)
(* with enter() of Locomotion / Navigation followed through RL::InitRL.    *)
(* ReadYamlRL either stores the config (params.observations stands for     *)
(* params as a whole), or catches YAML::BadFile, prints and returns with   *)
(* params as they were.  torch::jit::load then takes the path built from   *)
(* params.model_name: the empty name of the constructor cannot be loaded,  *)
(* a name a config supplied names a file that loads or does not.           *)
(***************************************************************************)
ConfigTerms == {<<"commands">>, <<"ang_vel", "dof_pos">>}

ReadYamlRL(params_observations, config_found, names) ==
    IF config_found THEN names ELSE params_observations

FastToLearnedConfig ==
    /\ pc_fast = "checkChange"
    /\ pc_fast' = "SetCommand"
    /\ fsm_current' = NextState
    /\ NextState # fsm_current
    /\ NextState \in Learned
    /\ \E config_found \in BOOLEAN, names \in ConfigTerms,
          is_simulation \in BOOLEAN, file_loads \in BOOLEAN :
          LET params  == ReadYamlRL(observations, config_found, names)
              returns == params # << >> /\ file_loads
          IN  /\ observations' = RenameAngVel(params, is_simulation)
              /\ obs_status' = IF config_found
                               THEN (IF returns THEN "done" ELSE "throw")
                               ELSE (IF returns THEN "BadFile_done" ELSE "BadFile_throw")
              /\ IF returns
                 THEN /\ rl_init_done' = TRUE
                      /\ output_dof_pos' = InitOutputs.pos
                      /\ output_dof_vel' = InitOutputs.vel
                      /\ output_dof_tau' = InitOutputs.tau
                      /\ enter_failed' = FALSE
                      /\ UNCHANGED control_state
                 ELSE /\ rl_init_done' = FALSE
                      /\ control_state' = STATE_POS_GETUP
                      /\ enter_failed' = TRUE
                      /\ UNCHANGED out_vars
    /\ ticks' = 0 /\ starved' = 0
    /\ UNCHANGED <<running_percent, pose_vars, robot_state, robot_command, low_command,
                   queue_vars, pc_slow>>
    /\ UNCHANGED <<field_vars, exit_vars, log_vars, clip_obs, obs_cat, clamped_obs,
                   buffer_vars, dec_vars>>

NextConfig ==
    \/ FastGetStateRL
    \/ FastRunGetUpRL
    \/ FastRunGetDownRL
    \/ FastRunLearned
    \/ FastStay
    \/ FastToGetUp
    \/ FastToGetDown
    \/ FastToLearnedConfig
    \/ FastSetCommand
    \/ KeyboardInterface

SpecConfig == Standing /\ [][NextConfig]_vars

C25_MissingConfigAborts_Step ==
    (FastToLearnedConfig /\ obs_status' \in {"BadFile_done", "BadFile_throw"}) =>
        /\ ~rl_init_done'
        /\ control_state' = STATE_POS_GETUP

\* C25: an entry step of a learned mode during which the config file is
\* not found leaves the ready flag clear and the requested mode StandUp
\* (the mode is never ready with the Config of an earlier load)
C25_MissingConfigAborts == [][C25_MissingConfigAborts_Step]_vars

C31_LearnedEntry_Step ==
    /\ (fsm_current \notin Learned /\ fsm_current' \in Learned) =>
          /\ fsm_current = GetUp
          /\ running_percent = OneF
    /\ fsm_current' \in Learned => running_percent' = OneF

\* C31: a step that takes the machine into Locomotion or Navigation from a
\* state that is neither starts in StandUp with progress 1 (never in Idle
\* or SitDown), and progress is 1 in every state in which the machine is in
\* Locomotion or Navigation
C31_LearnedEntry == [][C31_LearnedEntry_Step]_vars

\* Navigation has just been entered and is ready: progress is still the 1
\* the StandUp ramp reached
C31_Witness ==
    /\ fsm_current = Navigation
    /\ pc_fast = "SetCommand"
    /\ rl_init_done
    /\ ticks = 0
    /\ running_percent = OneF

C32_StandUpBeforeSitDown_Step ==
    /\ (fsm_current = Waiting /\ fsm_current' # Waiting) => fsm_current' = GetUp
    /\ (fsm_current # GetUp /\ fsm_current' = GetUp) => start_state' = robot_state
    /\ (fsm_current # GetDown /\ fsm_current' = GetDown) =>
          fsm_current \in {GetUp} \cup Learned
    /\ (RunStep /\ fsm_current = GetDown) => start_state' = start_state

\* C32: the machine starts in Idle, leaves Idle only into StandUp, and
\* every StandUp entry captures the measured pose as the start pose; SitDown
\* is entered only from StandUp or a learned mode, so every SitDown entry
\* is preceded by a StandUp activation and a SitDown tick reads a start
\* pose that has been captured
C32_StandUpBeforeSitDown ==
    /\ fsm_current = Waiting
    /\ [][C32_StandUpBeforeSitDown_Step]_vars

\* a SitDown tick has run towards a captured start pose that differs from
\* the value start_state is constructed with
C32_Witness ==
    /\ fsm_current = GetDown
    /\ pc_fast = "checkChange"
    /\ FLt(ZeroF, running_percent)
    /\ start_state = GetState_motor(SampleA)
    /\ start_state # InitRobotState

(***************************************************************************)
(* SpecFair: Spec with the fast task kept ticking.  loop_control calls     *)
(* RobotControl once per period for as long as the process runs, and no    *)
(* step of RobotControl waits for anything, so the step the fast task is   *)
(* at is always enabled and is eventually taken.                           *)
(***************************************************************************)
SpecFair == Init /\ [][Next]_vars /\ WF_vars(FastStep)

\* every StandUp activation reaches progress 1, and the machine never
\* stays in SitDown forever
RampsTerminate ==
    /\ (fsm_current = GetUp) ~> (fsm_current = GetUp /\ running_percent = OneF)
    /\ (fsm_current = GetDown) ~> (fsm_current # GetDown)

\* C33: no SitDown activation is ticked more than 500 times: by the end of
\* its 500th tick the machine has left SitDown for Idle, or has left it for
\* StandUp before
C33_SitDownWithin500 ==
    fsm_current = GetDown => ticks <= 500

====
